---- MODULE Spec2Model ----
(***************************************************************************)
(* SimpleCoverage: the PAF parser of scmap.py (parse_paf, map_mismatches)  *)
(* and the Match / Target classes of sc_class.py.                          *)
(*                                                                         *)
(* A Python str is modelled as the sequence of its characters, each a      *)
(* one-character string; a list[str] is a sequence of such sequences.      *)
(***************************************************************************)
EXTENDS Integers, Sequences, FiniteSets, Bags, TLC

\* ---------------------------------------------------------------- constants
\* scmap.py:19
ROW_FAILURE_LIMIT == 100
\* scmap.py:20
PAF_ROWS == 12
\* scmap.py:85, default of --mismatches
DefaultMismatches == 8
\* sc_class.py:10, parameters of Match.__init__ after self, none with a default
MatchInitParams == 6
\* scmap.py:240, positional arguments of the call Match(query_name, target_start, target_end, cs_map)
MatchCallArgs == 4

\* ------------------------------------------------------------------- bounds
\* length of the longest small target
MaxLen == 3
\* matches added to the targets of one run
MaxMatches == 3
\* units (":<N>" runs, "*<a><b>" substitutions) of a generated difference string
MaxUnits == 3
\* lines of a PAF file of varied rows
MaxLines == 4
\* lines of a PAF file of the circuit-breaker runs
MaxBreakerLines == 103
\* matches held by a target whose coverage map is printed
MaxRenderMatches == 2

VARIABLES
    targets,          \* dict[str, Target]: id -> [id, seq, length, coverage_map, matches]
    args_mismatches,  \* args.mismatches, the module-level args of scmap.py
    row_index,        \* parse_paf: rows read so far
    failed_rows,      \* parse_paf: rows with a column count error
    dropped_rows,     \* parse_paf: rows skipped by policy
    pc,               \* position of the running function
    err,              \* the exception that ended the run, "none" without one
    cur,              \* parse_paf: the line read last
    outcome,          \* parse_paf: what the code logged / did for the line read last
    cs_in,            \* map_mismatches: its argument cs_str
    cs_out,           \* map_mismatches: its return value cs_map
    report,           \* print_coverage: the numbers of the line printed last
    pending           \* records applied to the first of two targets and not yet to the second

vars == <<targets, args_mismatches, row_index, failed_rows, dropped_rows, pc, err,
          cur, outcome, cs_in, cs_out, report, pending>>

\* ------------------------------------------------------------ str helpers
Digits == {"0", "1", "2", "3", "4", "5", "6", "7", "8", "9"}

DigitVal(c) ==
    CASE c = "0" -> 0 [] c = "1" -> 1 [] c = "2" -> 2 [] c = "3" -> 3 [] c = "4" -> 4
      [] c = "5" -> 5 [] c = "6" -> 6 [] c = "7" -> 7 [] c = "8" -> 8 [] c = "9" -> 9

\* str.isspace characters of the modelled alphabet
Whitespace == {"\n", "\t", " "}

\* s * n for a str s: empty for n <= 0
Repeat(s, n) == IF n <= 0 THEN <<>> ELSE [i \in 1..(n * Len(s)) |-> s[((i - 1) % Len(s)) + 1]]

\* "".join(parts)
RECURSIVE Join(_)
Join(parts) == IF parts = <<>> THEN <<>> ELSE Head(parts) \o Join(Tail(parts))

\* s[n:] for n >= 0
DropFirst(s, n) == SubSeq(s, n + 1, Len(s))

\* str.strip() restricted to the modelled whitespace
RECURSIVE LStrip(_)
LStrip(s) == IF s # <<>> /\ Head(s) \in Whitespace THEN LStrip(Tail(s)) ELSE s

RECURSIVE RStrip(_)
RStrip(s) ==
    IF s # <<>> /\ s[Len(s)] \in Whitespace THEN RStrip(SubSeq(s, 1, Len(s) - 1)) ELSE s

RECURSIVE DecimalValue(_, _)
DecimalValue(ds, acc) ==
    IF ds = <<>> THEN acc ELSE DecimalValue(Tail(ds), 10 * acc + DigitVal(Head(ds)))

\* the digits of int(element): surrounding whitespace and one sign are allowed
IntBody(element) ==
    LET t == RStrip(LStrip(element))
    IN  IF t # <<>> /\ Head(t) \in {"+", "-"} THEN Tail(t) ELSE t

\* int(element) returns (no ValueError)
IntParses(element) ==
    /\ IntBody(element) # <<>>
    /\ \A i \in 1..Len(IntBody(element)) : IntBody(element)[i] \in Digits

\* int(element), where it returns
IntValue(element) ==
    LET t == RStrip(LStrip(element))
        v == DecimalValue(IntBody(element), 0)
    IN  IF Head(t) = "-" THEN 0 - v ELSE v

\* re.split(r'[:*]', s): the pieces between the delimiters, empty pieces kept
RECURSIVE ReSplit(_, _, _)
ReSplit(s, piece, acc) ==
    IF s = <<>> THEN Append(acc, piece)
    ELSE IF Head(s) \in {":", "*"} THEN ReSplit(Tail(s), <<>>, Append(acc, piece))
    ELSE ReSplit(Tail(s), Append(piece, Head(s)), acc)

\* s.count(c) for a one-character c
RECURSIVE StrCount(_, _)
StrCount(s, c) ==
    IF s = <<>> THEN 0 ELSE (IF Head(s) = c THEN 1 ELSE 0) + StrCount(Tail(s), c)

\* ---------------------------------------------------------- map_mismatches
\* the loop body of map_mismatches: one element of cs_components
RECURSIVE TranslateComponents(_, _)
TranslateComponents(cs_components, cs_map) ==
    IF cs_components = <<>> THEN cs_map
    ELSE TranslateComponents(
             Tail(cs_components),
             IF IntParses(Head(cs_components))
             THEN Append(cs_map, Repeat(<<"1">>, IntValue(Head(cs_components))))
             ELSE Append(cs_map, <<"0">>))

map_mismatches(cs_str) == TranslateComponents(ReSplit(cs_str, <<>>, <<>>), <<>>)

\* the per-base symbols of a cs_map, as "".join prints them
Symbols(cs_map) == Join(cs_map)

\* ------------------------------------------------- difference-string inputs
RunOf5 == <<":", "5">>
RunOf3 == <<":", "3">>
RunOf10 == <<":", "1", "0">>
SubstAC == <<"*", "a", "c">>
Units == {RunOf5, RunOf3, RunOf10, SubstAC}

\* the difference strings of 1 to n units
RECURSIVE UnitStrings(_)
UnitStrings(n) ==
    IF n = 1 THEN Units
    ELSE UnitStrings(n - 1) \cup {s \o u : s \in UnitStrings(n - 1), u \in Units}

\* ------------------------------------------------------------------- Decode
InitDecode ==
    /\ targets = <<>>
    /\ args_mismatches = DefaultMismatches
    /\ row_index = 0 /\ failed_rows = 0 /\ dropped_rows = 0
    /\ pc = "decode"
    /\ err = "none"
    /\ cur = <<>>
    /\ outcome = "none"
    /\ cs_in \in UnitStrings(MaxUnits)
    /\ cs_out = <<>>
    /\ report = <<>>
    /\ pending = EmptyBag

Decode ==
    /\ pc = "decode"
    /\ cs_out' = map_mismatches(cs_in)
    /\ pc' = "decoded"
    /\ UNCHANGED <<targets, args_mismatches, row_index, failed_rows, dropped_rows, err,
                   cur, outcome, cs_in, report, pending>>

NextDecode == Decode

SpecDecode == InitDecode /\ [][NextDecode]_vars

\* ------------------------------------------------------------ PAF rows
\* One line of the PAF file after cols = line.split("\t"): ncols is len(cols), the
\* named fields are the columns parse_paf reads (the numeric ones hold decimal
\* integers, as minimap2 writes them), last is cols[-1] with the line's newline.
CsTagPrefix == <<"c", "s", ":", "Z", ":">>

\* the last column of a line that ends with the cs tag
CsTag(cs) == CsTagPrefix \o cs \o <<"\n">>

\* the last column of a line of exactly 12 columns: the score
ScoreColumn == <<"6", "0", "\n">>

Row(ncols, q, tname, t, last) ==
    [ncols |-> ncols, query_name |-> "q1",
     query_len |-> q[1], query_start |-> q[2], query_end |-> q[3],
     target_name |-> tname, target_start |-> t[1], target_end |-> t[2], last |-> last]

NoRow == Row(0, <<0, 0, 0>>, "", <<0, 0>>, <<>>)

\* difference strings of the varied rows
CsSamples ==
    { <<>>,
      <<":", "2">>,
      <<":", "1">>,
      <<":", "1", "*", "a", "c">>,
      <<"*", "a", "c", "*", "g", "t">>,
      Repeat(SubstAC, DefaultMismatches),
      Repeat(SubstAC, DefaultMismatches + 1),
      <<":", "1", "+", "a">>,
      <<":", "1", "-", "c", ":", "1">>,
      <<":", "1", "~", "g", "t", "2", "a", "g">>,
      <<"*", "a", "c", "*", "g", "t", "+", "a">> }

\* (query_len, query_start, query_end): whole query, start cut, end cut
QuerySpans == {<<2, 0, 2>>, <<2, 1, 2>>, <<2, 0, 1>>}

\* rows that vary what the filter reads
FilterRows ==
    {Row(n, q, "t1", <<0, 2>>, CsTag(cs)) : n \in {PAF_ROWS - 1, PAF_ROWS + 1}, q \in QuerySpans, cs \in CsSamples}
    \cup {Row(PAF_ROWS, q, "t1", <<0, 2>>, ScoreColumn) : q \in QuerySpans}

\* rows that pass the filter and vary the target and the target interval
RouteRows ==
    {Row(PAF_ROWS + 1, <<2, 0, 2>>, tname, t, CsTag(cs)) :
        tname \in {"t1", "tX"},
        t \in {<<0, 2>>, <<0, 3>>, <<2, 1>>, <<1, 5>>},
        cs \in {<<":", "2">>, <<":", "1">>, <<":", "1", "*", "a", "c">>}}

Rows == FilterRows \cup RouteRows

Thresholds == {0, 1, DefaultMismatches}

\* --------------------------------------------------------------- Target
\* the first n characters of ACGTACGT...
Nucleotides(n) == [i \in 1..n |-> <<"A", "C", "G", "T">>[((i - 1) % 4) + 1]]

\* Target.__init__(record)
TargetInit(id, seq) ==
    [id |-> id, seq |-> seq, length |-> Len(seq),
     coverage_map |-> [i \in 1..Len(seq) |-> 0], matches |-> <<>>]

\* the targets main registers before parse_paf: one target t1
RegisteredTargets == [id \in {"t1"} |-> TargetInit(id, Nucleotides(MaxLen))]

\* ------------------------------------------------------------ parse_paf
\* len(cols) < PAF_ROWS
ColumnCountError(row) == row.ncols < PAF_ROWS

\* cs_str = cols[-1][5:]
CsStr(row) == DropFirst(row.last, 5)

\* re.search(r'[+\-~]', cs_str)
HasIndel(cs_str) == StrCount(cs_str, "+") + StrCount(cs_str, "-") + StrCount(cs_str, "~") > 0

\* query_start != 0 or query_len != query_end
PartialQuery(row) == row.query_start # 0 \/ row.query_len # row.query_end

\* TooManyMismatches with >= for >
TooManyMismatchesInclusive(cs_str, allowed) == StrCount(cs_str, "*") >= allowed

\* mismatches > args.mismatches, mismatches = cs_str.count('*')
TooManyMismatches(cs_str, allowed) == StrCount(cs_str, "*") > allowed

\* logger.warning(column count error); failed_rows += 1; continue
FailRow ==
    /\ failed_rows' = failed_rows + 1
    /\ outcome' = "column_count"
    /\ UNCHANGED <<dropped_rows, pc, err, targets>>

\* DropRow counting the skipped row as a failed row
DropRowAsFailed(why) ==
    /\ failed_rows' = failed_rows + 1
    /\ outcome' = why
    /\ UNCHANGED <<dropped_rows, pc, err, targets>>

\* logger.info("Skipping ... due to <why>"); dropped_rows += 1; continue
DropRow(why) ==
    /\ dropped_rows' = dropped_rows + 1
    /\ outcome' = why
    /\ UNCHANGED <<failed_rows, pc, err, targets>>

\* the call Match(query_name, target_start, target_end, cs_map) raises TypeError:
\* it passes 4 positional arguments and Match.__init__ requires 6
MatchCallRaises == MatchCallArgs # MatchInitParams

\* the swallowed-exception variant of the accepted-row block: the row is skipped
AcceptRowSwallow(row, cs_str) ==
    /\ outcome' = "accept"
    /\ UNCHANGED <<failed_rows, dropped_rows, pc, err, targets>>

\* lines 238-241: decode, construct the Match, add it to targets[target_name].
\* The construction raises, so targets[target_name].add_match is never reached.
AcceptRow(row, cs_str) ==
    /\ map_mismatches(cs_str) \in Seq(Seq({"0", "1"}))
    /\ MatchCallRaises
    /\ outcome' = "accept"
    /\ pc' = "error"
    /\ err' = "TypeError"
    /\ UNCHANGED <<failed_rows, dropped_rows, targets>>

\* one iteration of `for line in f.readlines()`
ParseLine(row) ==
    /\ pc = "loop"
    /\ row_index' = row_index + 1
    /\ cur' = row
    /\ IF failed_rows > ROW_FAILURE_LIMIT
       THEN /\ outcome' = "too_many_failed"
            /\ pc' = "error"
            /\ err' = "ValueError"
            /\ UNCHANGED <<failed_rows, dropped_rows, targets>>
       ELSE IF ColumnCountError(row) THEN FailRow
       ELSE IF HasIndel(CsStr(row)) THEN DropRow("indel")
       ELSE IF PartialQuery(row) THEN DropRow("partial")
       ELSE IF TooManyMismatches(CsStr(row), args_mismatches) THEN DropRow("mismatches")
       ELSE AcceptRow(row, CsStr(row))
    /\ UNCHANGED <<args_mismatches, cs_in, cs_out, report, pending>>

\* the loop ends with the file; the three counters are logged and targets returned
EndOfFile ==
    /\ pc = "loop"
    /\ pc' = "done"
    /\ outcome' = "processed"
    /\ UNCHANGED <<targets, args_mismatches, row_index, failed_rows, dropped_rows, err,
                   cur, cs_in, cs_out, report, pending>>

InitParse(allowed) ==
    /\ targets = RegisteredTargets
    /\ args_mismatches \in allowed
    /\ row_index = 0 /\ failed_rows = 0 /\ dropped_rows = 0
    /\ pc = "loop"
    /\ err = "none"
    /\ cur = NoRow
    /\ outcome = "none"
    /\ cs_in = <<>>
    /\ cs_out = <<>>
    /\ report = <<>>
    /\ pending = EmptyBag

\* parse_paf on every file of at most MaxLines lines drawn from Rows
Init == InitParse(Thresholds)

Next ==
    \/ \E row \in Rows : row_index < MaxLines /\ ParseLine(row)
    \/ EndOfFile

Spec == Init /\ [][Next]_vars

\* parse_paf on the files of the circuit breaker: one row of each kind, many lines
BreakerRows ==
    { Row(3, <<0, 0, 0>>, "", <<0, 0>>, <<"x", "\n">>),
      Row(PAF_ROWS + 1, <<2, 0, 2>>, "t1", <<0, 2>>, CsTag(<<":", "1", "+", "a">>)),
      Row(PAF_ROWS + 1, <<2, 1, 2>>, "t1", <<0, 2>>, CsTag(<<":", "2">>)),
      Row(PAF_ROWS + 1, <<2, 0, 2>>, "t1", <<0, 2>>, CsTag(Repeat(SubstAC, DefaultMismatches + 1))),
      Row(PAF_ROWS + 1, <<2, 0, 2>>, "t1", <<0, 2>>, CsTag(<<":", "2">>)) }

InitBreaker == InitParse({DefaultMismatches})

NextBreaker ==
    \/ \E row \in BreakerRows : row_index < MaxBreakerLines /\ ParseLine(row)
    \/ EndOfFile

SpecBreaker == InitBreaker /\ [][NextBreaker]_vars

\* ------------------------------------------------------- Match and Target
\* Match.__init__ with the right padding one filler short
MatchInitShortPad(seq_id, seq, start, end, target_len, mismatches) ==
    [seq_id |-> seq_id, seq |-> seq, start |-> start, end |-> end,
     mismatches |-> mismatches,
     align_seq |-> Repeat(<<"-">>, start) \o seq \o Repeat(<<"-">>, target_len - end - 1)]

\* Match.__init__(seq_id, seq, start, end, target_len, mismatches); list(seq) of a
\* str is the list of its characters, which is how seq is held here
MatchInit(seq_id, seq, start, end, target_len, mismatches) ==
    [seq_id |-> seq_id, seq |-> seq, start |-> start, end |-> end,
     mismatches |-> mismatches,
     align_seq |-> Repeat(<<"-">>, start) \o seq \o Repeat(<<"-">>, target_len - end)]

\* add_match with the depth taken from the number of matches instead of incremented
add_match_by_count(tg, match) ==
    [tg EXCEPT
        !.coverage_map = [i \in 1..Len(@) |->
            IF match.start <= i - 1 /\ i - 1 < match.end THEN Len(tg.matches) + 1 ELSE @[i]],
        !.matches = Append(@, match)]

\* add_match with the range starting one position late
add_match_late_start(tg, match) ==
    [tg EXCEPT
        !.coverage_map = [i \in 1..Len(@) |->
            IF match.start + 1 <= i - 1 /\ i - 1 < match.end THEN @[i] + 1 ELSE @[i]],
        !.matches = Append(@, match)]

\* Target.add_match(match), for 0 <= match.start and match.end <= len(coverage_map):
\* coverage_map[i] += 1 for i in range(start, end), then matches.append(match).
\* Index i of the code is index i + 1 of the sequence.
add_match(tg, match) ==
    [tg EXCEPT
        !.coverage_map = [i \in 1..Len(@) |->
            IF match.start <= i - 1 /\ i - 1 < match.end THEN @[i] + 1 ELSE @[i]],
        !.matches = Append(@, match)]

\* Target.add_matches(matches): add_match for each, in order
RECURSIVE add_matches(_, _)
add_matches(tg, ms) ==
    IF ms = <<>> THEN tg ELSE add_matches(add_match(tg, Head(ms)), Tail(ms))

\* sum(coverage_map)
RECURSIVE Sum(_)
Sum(xs) == IF xs = <<>> THEN 0 ELSE Head(xs) + Sum(Tail(xs))

\* the loop of print_coverage: positions with i > 0
RECURSIVE CountPositive(_)
CountPositive(xs) ==
    IF xs = <<>> THEN 0 ELSE (IF Head(xs) > 0 THEN 1 ELSE 0) + CountPositive(Tail(xs))

\* print_coverage counting the positions with i >= 0
print_coverage_all_positions(tg) ==
    [id |-> tg.id, bp_with_coverage |-> Len(tg.coverage_map), length |-> tg.length,
     coverage_sum |-> Sum(tg.coverage_map), map_len |-> Len(tg.coverage_map)]

\* Target.print_coverage(): the numbers of the printed line. bp_pct is
\* bp_with_coverage / length and avg_coverage is coverage_sum / map_len.
print_coverage(tg) ==
    [id |-> tg.id, bp_with_coverage |-> CountPositive(tg.coverage_map), length |-> tg.length,
     coverage_sum |-> Sum(tg.coverage_map), map_len |-> Len(tg.coverage_map)]

\* ------------------------------------------------------------ Target runs
\* the targets of the runs: t1 of every small length, and chrT of length 20
ApiTargets ==
    {TargetInit("t1", Nucleotides(n)) : n \in 1..MaxLen} \cup {TargetInit("chrT", Nucleotides(20))}

\* interval ends offered for a target: every position of t1, every fifth of chrT
IntervalEnds(tg) == {k \in 0..tg.length : k % (IF tg.id = "chrT" THEN 5 ELSE 1) = 0}

\* the records offered to a target: every interval 0 <= start < end <= length over
\* the ends, all bases matching
ApiRecords(tg) ==
    {MatchInit("qA", Repeat(<<"1">>, p[2] - p[1]), p[1], p[2], tg.length, <<>>) :
        p \in {q \in IntervalEnds(tg) \X IntervalEnds(tg) : q[1] < q[2]}}

InitApi(ts) ==
    /\ targets \in ts
    /\ args_mismatches = DefaultMismatches
    /\ row_index = 0 /\ failed_rows = 0 /\ dropped_rows = 0
    /\ pc = "adding"
    /\ err = "none"
    /\ cur = NoRow
    /\ outcome = "none"
    /\ cs_in = <<>>
    /\ cs_out = <<>>
    /\ report = <<>>
    /\ pending = EmptyBag

UnchangedByApi ==
    UNCHANGED <<args_mismatches, row_index, failed_rows, dropped_rows, err, cur, outcome,
                cs_in, cs_out>>

\* target.add_match(m)
AddMatch(t, m) ==
    /\ pc = "adding"
    /\ Len(targets[t].matches) < MaxMatches
    /\ targets' = [targets EXCEPT ![t] = add_match(@, m)]
    /\ UNCHANGED <<pc, report, pending>>
    /\ UnchangedByApi

\* target.add_matches(ms)
AddMatches(t, ms) ==
    /\ pc = "adding"
    /\ Len(targets[t].matches) + Len(ms) <= MaxMatches
    /\ targets' = [targets EXCEPT ![t] = add_matches(@, ms)]
    /\ UNCHANGED <<pc, report, pending>>
    /\ UnchangedByApi

\* target.print_coverage(), as main calls it for every target once parsing is over
PrintCoverage(t) ==
    /\ pc \in {"adding", "reporting"}
    /\ pc' = "reporting"
    /\ report' = print_coverage(targets[t])
    /\ UNCHANGED <<targets, pending>>
    /\ UnchangedByApi

InitTarget == InitApi({[id \in {tg.id} |-> tg] : tg \in ApiTargets})

NextTarget ==
    \/ \E t \in DOMAIN targets : \E m \in ApiRecords(targets[t]) : AddMatch(t, m)
    \/ \E t \in DOMAIN targets : \E m1, m2 \in ApiRecords(targets[t]) : AddMatches(t, <<m1, m2>>)
    \/ \E t \in DOMAIN targets : AddMatches(t, <<>>)
    \/ \E t \in DOMAIN targets : PrintCoverage(t)

SpecTarget == InitTarget /\ [][NextTarget]_vars

\* two targets of one length given the same records, the second in any order
ApplyFirst(m) ==
    /\ pc = "adding"
    /\ Len(targets["t1"].matches) < MaxMatches
    /\ targets' = [targets EXCEPT !["t1"] = add_match(@, m)]
    /\ pending' = pending (+) SetToBag({m})
    /\ UNCHANGED <<pc, report>>
    /\ UnchangedByApi

ApplySecond(m) ==
    /\ pc = "adding"
    /\ BagIn(m, pending)
    /\ targets' = [targets EXCEPT !["t2"] = add_match(@, m)]
    /\ pending' = pending (-) SetToBag({m})
    /\ UNCHANGED <<pc, report>>
    /\ UnchangedByApi

InitOrder == InitApi({[id \in {"t1", "t2"} |-> TargetInit(id, Nucleotides(MaxLen))]})

NextOrder ==
    \/ \E m \in ApiRecords(targets["t1"]) : ApplyFirst(m)
    \/ \E m \in BagToSet(pending) : ApplySecond(m)

SpecOrder == InitOrder /\ [][NextOrder]_vars

\* ------------------------------------------------------ print_coverage_map
\* min(a, b)
Min(a, b) == IF a <= b THEN a ELSE b

\* s[a:b] for 0 <= a: the items of index a .. b - 1 that s has
Slice(s, a, b) == IF a >= Min(b, Len(s)) THEN <<>> ELSE SubSeq(s, a + 1, Min(b, Len(s)))

\* str(n) for n >= 0
RECURSIVE IntToStr(_)
IntToStr(n) ==
    LET d == <<"0", "1", "2", "3", "4", "5", "6", "7", "8", "9">>[(n % 10) + 1]
    IN  IF n < 10 THEN <<d>> ELSE Append(IntToStr(n \div 10), d)

\* all([i == "-" for i in align])
AllFiller(align) == \A k \in 1..Len(align) : align[k] = "-"

\* the inner loop over self.matches for the block i .. col_end: the lines printed
RECURSIVE MatchLines(_, _, _)
MatchLines(ms, i, col_end) ==
    IF ms = <<>> THEN <<>>
    ELSE LET align == Slice(Head(ms).align_seq, i, col_end)
         IN  (IF AllFiller(align) THEN <<>> ELSE <<align>>) \o MatchLines(Tail(ms), i, col_end)

\* one iteration of the loop over range(0, len(coverage_map), columns): the match
\* lines, the coverage line and the target sequence line of the block starting at i
BlockLines(tg, i, columns) ==
    LET col_end == Min(i + columns, Len(tg.coverage_map))
    IN  [start |-> i, col_end |-> col_end,
         rows |-> MatchLines(tg.matches, i, col_end),
         coverage_str |-> Join([k \in 1..(col_end - i) |-> IntToStr(tg.coverage_map[i + k])]),
         target_seq_str |-> Slice(tg.seq, i, col_end)]

\* Target.print_coverage_map(columns), columns >= 1: the blocks printed, in order
print_coverage_map(tg, columns) ==
    [b \in 1..((Len(tg.coverage_map) + columns - 1) \div columns) |->
        BlockLines(tg, (b - 1) * columns, columns)]

\* per-base symbol strings of length n: all matching, or one mismatch
SymbolStrings(n) ==
    {Repeat(<<"1">>, n)} \cup {[k \in 1..n |-> IF k = j THEN "0" ELSE "1"] : j \in 1..n}

\* the records offered to a target whose map is printed: every interval
\* 0 <= start < end <= length with each symbol string of its length
RenderRecords(tg) ==
    UNION {{MatchInit("qA", seq, p[1], p[2], tg.length, <<>>) : seq \in SymbolStrings(p[2] - p[1])} :
              p \in {q \in (0..tg.length) \X (0..tg.length) : q[1] < q[2]}}

\* target.add_match(m) before the map is printed
AddRenderMatch(t, m) ==
    /\ pc = "adding"
    /\ Len(targets[t].matches) < MaxRenderMatches
    /\ targets' = [targets EXCEPT ![t] = add_match(@, m)]
    /\ UNCHANGED <<pc, report, pending>>
    /\ UnchangedByApi

\* target.print_coverage_map(columns)
PrintCoverageMap(t, columns) ==
    /\ pc \in {"adding", "rendered"}
    /\ pc' = "rendered"
    /\ report' = [id |-> t, columns |-> columns, blocks |-> print_coverage_map(targets[t], columns)]
    /\ UNCHANGED <<targets, pending>>
    /\ UnchangedByApi

InitRender == InitApi({[id \in {"t1"} |-> TargetInit(id, Nucleotides(n))] : n \in 1..MaxLen})

NextRender ==
    \/ \E t \in DOMAIN targets : \E m \in RenderRecords(targets[t]) : AddRenderMatch(t, m)
    \/ \E t \in DOMAIN targets : \E columns \in 1..(MaxLen + 1) : PrintCoverageMap(t, columns)

SpecRender == InitRender /\ [][NextRender]_vars

\* ------------------------------------------------------------------ claims
\* the symbols the difference-string grammar gives: N MATCH ("1") for ":<N>",
\* one MISMATCH ("0") for "*<a><b>"
RECURSIVE DigitRun(_)
DigitRun(s) == IF s # <<>> /\ Head(s) \in Digits THEN 1 + DigitRun(Tail(s)) ELSE 0

RECURSIVE ExpectedSymbols(_)
ExpectedSymbols(s) ==
    IF s = <<>> THEN <<>>
    ELSE IF Head(s) = "*" THEN <<"0">> \o ExpectedSymbols(DropFirst(s, 3))
    ELSE LET k == DigitRun(Tail(s))
         IN  Repeat(<<"1">>, DecimalValue(SubSeq(s, 2, k + 1), 0))
                 \o ExpectedSymbols(DropFirst(s, k + 1))

\* C1: the run aborts as soon as the malformed-row count exceeds 100, whether or
\* not a further line follows: a run that ends normally has counted at most 100
\* malformed rows, and the circuit breaker's error is raised only above 100.
C1_CircuitBreaker ==
    /\ pc = "done" => failed_rows <= ROW_FAILURE_LIMIT
    /\ (pc = "error" /\ err = "ValueError") => failed_rows > ROW_FAILURE_LIMIT

\* C2: for every indel-free difference string of runs and substitution markers,
\* map_mismatches returns exactly the grammar's symbols, one per base spanned, in
\* string order: N MATCH per run, one MISMATCH per marker, nothing else.
C2_DecoderSymbols ==
    pc = "decoded" =>
        /\ Symbols(cs_out) = ExpectedSymbols(cs_in)
        /\ Len(Symbols(cs_out)) = Len(ExpectedSymbols(cs_in))

\* C3: after any sequence of add_match / add_matches calls with records
\* 0 <= start < end <= length, coverage_map[i] is the number of records m in
\* matches with m.start <= i < m.end, and coverage_map keeps the target's length.
C3_DepthInvariant ==
    \A t \in DOMAIN targets :
        LET tg == targets[t]
        IN  /\ Len(tg.coverage_map) = tg.length
            /\ \A i \in 0..(tg.length - 1) :
                   tg.coverage_map[i + 1] =
                       Cardinality({k \in 1..Len(tg.matches) :
                                       tg.matches[k].start <= i /\ i < tg.matches[k].end})

\* C3 witness: a target holding overlapping records, some position covered twice
\* and some position not covered.
C3_Witness ==
    \E t \in DOMAIN targets :
        /\ Len(targets[t].matches) >= 2
        /\ \E i \in 1..targets[t].length : targets[t].coverage_map[i] >= 2
        /\ \E i \in 1..targets[t].length : targets[t].coverage_map[i] = 0

\* C4: every row that passes the filter (and so is decoded and built into a Match)
\* has a decoded symbol sequence of length exactly target_end - target_start; a
\* row whose decoded length differs is treated as malformed, never as accepted.
C4_LengthInvariant ==
    outcome = "accept" =>
        Len(Symbols(map_mismatches(CsStr(cur)))) = cur.target_end - cur.target_start

\* the reference filter of the specification: the first reason, in the stated
\* precedence, whose condition holds, and Accept when none does
RefReasons == <<"MalformedRow", "ContainsIndel", "PartialQueryMapping", "TooManyMismatches">>

RefDifference(row) == SubSeq(row.last, 6, Len(row.last))

RefConditions(row, threshold) ==
    << row.ncols < 12,
       \E i \in 1..Len(RefDifference(row)) : RefDifference(row)[i] \in {"+", "-", "~"},
       ~(row.query_start = 0 /\ row.query_end = row.query_len),
       Cardinality({i \in 1..Len(RefDifference(row)) : RefDifference(row)[i] = "*"}) > threshold >>

RefFilter(row, threshold) ==
    LET holds == {i \in 1..4 : RefConditions(row, threshold)[i]}
    IN  IF holds = {} THEN "Accept"
        ELSE RefReasons[CHOOSE i \in holds : \A j \in holds : i <= j]

\* what parse_paf logs for a row of each class
LoggedAs(class) ==
    CASE class = "MalformedRow" -> "column_count"
      [] class = "ContainsIndel" -> "indel"
      [] class = "PartialQueryMapping" -> "partial"
      [] class = "TooManyMismatches" -> "mismatches"
      [] class = "Accept" -> "accept"

Classified == {"column_count", "indel", "partial", "mismatches", "accept"}

\* C5: for every row and every mismatch threshold, parse_paf treats the row as the
\* reference filter classifies it: the first of MalformedRow, ContainsIndel,
\* PartialQueryMapping, TooManyMismatches that holds, Accept when none holds (so
\* a row with exactly threshold mismatches is accepted).
C5_Classification ==
    outcome \in Classified => outcome = LoggedAs(RefFilter(cur, args_mismatches))

\* C5 witness: a row with exactly the default threshold of mismatches is accepted.
C5_Witness ==
    /\ outcome = "accept"
    /\ args_mismatches = DefaultMismatches
    /\ StrCount(CsStr(cur), "*") = DefaultMismatches

MatchCount(ms, m) == Cardinality({k \in 1..Len(ms) : ms[k] = m})

SameRecords(ms1, ms2) ==
    /\ Len(ms1) = Len(ms2)
    /\ \A k \in 1..Len(ms1) : MatchCount(ms1, ms1[k]) = MatchCount(ms2, ms1[k])

\* C7: two targets given the same multiset of records, in any two orders, end with
\* the same coverage_map; their matches lists hold the same records.
C7_Commutativity ==
    pending = EmptyBag =>
        /\ targets["t1"].coverage_map = targets["t2"].coverage_map
        /\ SameRecords(targets["t1"].matches, targets["t2"].matches)

\* C7 witness: overlapping records applied in two different orders.
C7_Witness ==
    /\ pending = EmptyBag
    /\ Len(targets["t1"].matches) >= 2
    /\ targets["t1"].matches # targets["t2"].matches
    /\ \E i \in 1..targets["t1"].length : targets["t1"].coverage_map[i] >= 2

PolicyClasses == {"ContainsIndel", "PartialQueryMapping", "TooManyMismatches"}

\* C8: every row that parse_paf reads and the filter rejects by policy adds exactly
\* one to dropped_rows, leaves failed_rows and every target unchanged and does not
\* end the run, however many were dropped before; every malformed row adds one to
\* failed_rows only.
C8_PolicyRejections ==
    [][ (row_index' = row_index + 1 /\ outcome' \in Classified) =>
          /\ RefFilter(cur', args_mismatches) \in PolicyClasses =>
                /\ dropped_rows' = dropped_rows + 1
                /\ failed_rows' = failed_rows
                /\ targets' = targets
                /\ pc' = "loop" /\ err' = "none"
          /\ RefFilter(cur', args_mismatches) = "MalformedRow" =>
                /\ failed_rows' = failed_rows + 1
                /\ dropped_rows' = dropped_rows
                /\ targets' = targets ]_vars

\* C8 witness: more rows dropped by policy than the circuit breaker's limit, the
\* run still going on after one more.
C8_Witness ==
    /\ dropped_rows > ROW_FAILURE_LIMIT + 1
    /\ outcome \in {"indel", "partial", "mismatches"}
    /\ failed_rows > 0
    /\ pc = "loop"

\* C9: a row that passes the filter and names an unregistered target ends the run
\* with an error at that row, changing no target, and no later row is read.
C9_UnknownTargetFatal ==
    [][ /\ (row_index' = row_index + 1 /\ outcome' = "accept"
               /\ cur'.target_name \notin DOMAIN targets) =>
             (pc' = "error" /\ err' # "none" /\ targets' = targets)
        /\ pc = "error" => UNCHANGED vars ]_vars

\* C9 witness: the run ended by such a row with lines still to read.
C9_Witness ==
    /\ pc = "error"
    /\ outcome = "accept"
    /\ cur.target_name \notin DOMAIN targets
    /\ row_index < MaxLines
    /\ dropped_rows > 0

\* positions covered by at least one record of ms
CoveredPositions(ms) == UNION {ms[k].start .. (ms[k].end - 1) : k \in 1..Len(ms)}

RECURSIVE SpanSum(_)
SpanSum(ms) == IF ms = <<>> THEN 0 ELSE (Head(ms).end - Head(ms).start) + SpanSum(Tail(ms))

Intervals(ms) == [k \in 1..Len(ms) |-> <<ms[k].start, ms[k].end>>]

\* C10: the summary of a target reports as covered the number of positions in the
\* union of its records' intervals (at most length), over length, and
\* sum(coverage_map) is the sum of end - start over its matches; length 20 with
\* records [0,10) and [5,15) gives depth 1,2,1,0 on the four quarters and 15/20.
C10_SummaryArithmetic ==
    pc = "reporting" =>
        LET tg == targets[report.id]
        IN  /\ report.bp_with_coverage = Cardinality(CoveredPositions(tg.matches))
            /\ report.bp_with_coverage <= report.length
            /\ report.length = tg.length /\ report.map_len = tg.length
            /\ report.coverage_sum = SpanSum(tg.matches)
            /\ (tg.length = 20 /\ Intervals(tg.matches) = <<<<0, 10>>, <<5, 15>>>>) =>
                   /\ tg.coverage_map =
                          [i \in 1..20 |-> IF i <= 5 THEN 1 ELSE IF i <= 10 THEN 2
                                           ELSE IF i <= 15 THEN 1 ELSE 0]
                   /\ report.bp_with_coverage = 15 /\ report.length = 20

\* C10 witness: the summary of the length-20 target holding [0,10) and [5,15).
C10_Witness ==
    /\ pc = "reporting"
    /\ report.length = 20
    /\ Intervals(targets[report.id].matches) = <<<<0, 10>>, <<5, 15>>>>
    /\ report.bp_with_coverage = 15 /\ report.coverage_sum = 20

\* the track the record's fields give: the filler outside [start, end), the
\* record's symbol number i - start at index i inside
ExpectedTrack(m, length) ==
    [k \in 1..length |->
        IF m.start <= k - 1 /\ k - 1 < m.end THEN m.seq[(k - 1) - m.start + 1] ELSE "-"]

\* the matches whose interval meets the block [lo, hi), in matches order
RECURSIVE Contributing(_, _, _)
Contributing(ms, lo, hi) ==
    IF ms = <<>> THEN <<>>
    ELSE (IF Head(ms).start < hi /\ lo < Head(ms).end THEN <<Head(ms)>> ELSE <<>>)
             \o Contributing(Tail(ms), lo, hi)

====
